---- MODULE Spec2Model ----
(***************************************************************************)
(* Model of pyrsostf/plots/plot_utilities.py: the mismatch finders (pure   *)
(* functions over numpy arrays) and the pyplot-based plot renderers, which *)
(* act on matplotlib's process-wide figure registry.                       *)
(*                                                                         *)
(* Arrays are sequences; positions are 0-based as in numpy, so element i   *)
(* of array a is a[i + 1].                                                 *)
(***************************************************************************)
EXTENDS Integers, Sequences, FiniteSets, TLC

\* ------------------------------------------------------------------ bounds
MaxLen == 3
NumClasses == 2
MaxCalls == 2
MaxFilters == 4
MaxImages == 4
MaxOff == 1
ValMod == 3

\* ------------------------------------------------------- program constants
DenseRows == 3
DenseCols == 4
DenseShown == 10
AeRows == 10
AeCols == 10
ImgSide == 28

VARIABLES
    labels,        \* finder argument: label vector
    predictions,   \* finder argument: prediction vector
    images,        \* finder argument: image batch (one image id per sample)
    result,        \* what the last finder call returned or raised
    numpyRaises,   \* installed numpy: != on non-broadcastable shapes raises
                   \* (>= 1.25) or yields the scalar True with a warning
    figs,          \* pyplot's figure registry, oldest first; the last is current
    shown,         \* the figures on screen while plt.show() blocks
    files,         \* the files plt.savefig has written, oldest first
    pc,            \* position inside the running plot function, or "idle"
    call,          \* the running (or last finished) call: arguments and status
    i,             \* loop counter of the running call
    calls,         \* number of plot calls started so far
    mplDeletesOverlap  \* installed matplotlib: plt.subplot deletes the axes a
                       \* new one overlaps (< 3.8) or keeps them

findVars == <<labels, predictions, images, result, numpyRaises>>
plotVars == <<figs, shown, files, pc, call, i, calls, mplDeletesOverlap>>
vars == <<labels, predictions, images, result, numpyRaises,
          figs, shown, files, pc, call, i, calls, mplDeletesOverlap>>


\* ------------------------------------------------------------ numpy arrays
At(a, pos) == a[pos + 1]

RECURSIVE SeqsUpTo(_, _)
SeqsUpTo(S, n) ==
    IF n = 0 THEN {<<>>}
    ELSE LET shorter == SeqsUpTo(S, n - 1)
         IN  shorter \cup {Append(s, x) : s \in {t \in shorter : Len(t) = n - 1}, x \in S}

Classes == 0 .. (NumClasses - 1)
\* an image batch of m images, each a distinct image
ImageBatch(m) == [k \in 1 .. m |-> k - 1]

\* labels != predictions: elementwise with numpy broadcasting of a length-1
\* operand; shapes that do not broadcast raise or give the scalar True.
NotEqualNoBroadcast(a, b) ==
    IF Len(a) = Len(b)
    THEN [kind |-> "array", val |-> [k \in 1 .. Len(a) |-> a[k] # b[k]]]
    ELSE IF numpyRaises
    THEN [kind |-> "raise", val |-> <<>>]
    ELSE [kind |-> "scalar", val |-> <<TRUE>>]

NotEqualAsEqual(a, b) ==
    IF Len(a) = Len(b)
    THEN [kind |-> "array", val |-> [k \in 1 .. Len(a) |-> a[k] = b[k]]]
    ELSE IF Len(a) = 1
    THEN [kind |-> "array", val |-> [k \in 1 .. Len(b) |-> a[1] = b[k]]]
    ELSE IF Len(b) = 1
    THEN [kind |-> "array", val |-> [k \in 1 .. Len(a) |-> a[k] = b[1]]]
    ELSE IF numpyRaises
    THEN [kind |-> "raise", val |-> <<>>]
    ELSE [kind |-> "scalar", val |-> <<TRUE>>]

NotEqual(a, b) ==
    IF Len(a) = Len(b)
    THEN [kind |-> "array", val |-> [k \in 1 .. Len(a) |-> a[k] # b[k]]]
    ELSE IF Len(a) = 1
    THEN [kind |-> "array", val |-> [k \in 1 .. Len(b) |-> a[1] # b[k]]]
    ELSE IF Len(b) = 1
    THEN [kind |-> "array", val |-> [k \in 1 .. Len(a) |-> a[k] # b[1]]]
    ELSE IF numpyRaises
    THEN [kind |-> "raise", val |-> <<>>]
    ELSE [kind |-> "scalar", val |-> <<TRUE>>]

\* np.where(mask)[0]: the positions of the true entries, by a forward scan.
\* A 0-d True counts as the one-element array [True].
RECURSIVE Scan(_, _)
Scan(mask, k) ==
    IF k > Len(mask) THEN <<>>
    ELSE IF mask[k] THEN <<k - 1>> \o Scan(mask, k + 1)
    ELSE Scan(mask, k + 1)

WhereOneBased(cmp) == [k \in 1 .. Len(Scan(cmp.val, 1)) |-> Scan(cmp.val, 1)[k] + 1]

Where(cmp) == Scan(cmp.val, 1)

\* a[idx] with an integer index array: IndexError when a position is out of range.
InRange(idx, a) == \A k \in 1 .. Len(idx) : idx[k] < Len(a)

Take(a, idx) == [k \in 1 .. Len(idx) |-> At(a, idx[k])]

Returned(fn, idx, imgs, wl, cl) ==
    [fn |-> fn, status |-> "returned", raisedBy |-> "none",
     wrong_indeces |-> idx, wrong_images |-> imgs,
     wrong_labels |-> wl, correct_labels |-> cl]

Raised(fn, err, op) ==
    [fn |-> fn, status |-> err, raisedBy |-> op,
     wrong_indeces |-> <<>>, wrong_images |-> <<>>,
     wrong_labels |-> <<>>, correct_labels |-> <<>>]

NoResult ==
    [fn |-> "none", status |-> "none", raisedBy |-> "none",
     wrong_indeces |-> <<>>, wrong_images |-> <<>>,
     wrong_labels |-> <<>>, correct_labels |-> <<>>]

find_wrong_predictions_cifar(lab, pred) ==
    LET fn == "find_wrong_predictions_cifar"
        cmp == NotEqual(lab, pred)
        wrong_indeces == Where(cmp)
    IN  IF cmp.kind = "raise" THEN Raised(fn, "ValueError", "compare")
        ELSE IF ~InRange(wrong_indeces, pred) THEN Raised(fn, "IndexError", "predictions")
        ELSE IF ~InRange(wrong_indeces, lab) THEN Raised(fn, "IndexError", "labels")
        ELSE Returned(fn, wrong_indeces, <<>>,
                      Take(pred, wrong_indeces), Take(lab, wrong_indeces))

find_wrong_predictions(lab, pred, imgs) ==
    LET fn == "find_wrong_predictions"
        cmp == NotEqual(lab, pred)
        wrong_indeces == Where(cmp)
    IN  IF cmp.kind = "raise" THEN Raised(fn, "ValueError", "compare")
        ELSE IF ~InRange(wrong_indeces, imgs) THEN Raised(fn, "IndexError", "images")
        ELSE IF ~InRange(wrong_indeces, pred) THEN Raised(fn, "IndexError", "predictions")
        ELSE IF ~InRange(wrong_indeces, lab) THEN Raised(fn, "IndexError", "labels")
        ELSE Returned(fn, wrong_indeces, Take(imgs, wrong_indeces),
                      Take(pred, wrong_indeces), Take(lab, wrong_indeces))

\* --------------------------------------------------------------- grid sizes
\* int(np.ceil(np.sqrt(n)))
RECURSIVE CeilSqrtFrom(_, _)
CeilSqrtFrom(n, g) == IF g * g >= n THEN g ELSE CeilSqrtFrom(n, g + 1)

CeilSqrt(n) == CeilSqrtFrom(n, 0)

\* int(np.ceil(n * 1.0 / r)), r > 0
CeilDiv(n, r) == (n + r - 1) \div r

\* ------------------------------------------------------------ input tensors
\* A weight/activation tensor is described by its filter (unit) count n and an
\* offset off; the pixels of filter k span PanelMin(off, k) .. PanelMax(off, k).
PanelMin(off, k) == (k + off) % ValMod
PanelMax(off, k) == PanelMin(off, k) + (k % 2)

SetMin(S) == CHOOSE x \in S : \A y \in S : x <= y
SetMax(S) == CHOOSE x \in S : \A y \in S : x >= y

\* np.min(weights), np.max(weights)
NpMin(n, off) == SetMin({PanelMin(off, k) : k \in 0 .. n - 1})
NpMax(n, off) == SetMax({PanelMax(off, k) : k \in 0 .. n - 1})

\* ------------------------------------------------------------------- pyplot
NewAxes(r, c, cell) ==
    [grid |-> <<r, c>>, cell |-> cell, kind |-> "subplot", images |-> <<>>,
     xlabel |-> "", ylabel |-> "", xticks |-> -1, yticks |-> -1]

\* Axes.imshow: one more image on the axes; with vmin/vmax the colour scale is
\* the one given, without it the image is normalised to its own data range.
Image(no, idx, norm, lo, hi) ==
    [no |-> no, idx |-> idx, norm |-> norm, vmin |-> lo, vmax |-> hi]

Imshow(ax, img) == [ax EXCEPT !.images = Append(@, img)]

\* ax.set_xticks([]); ax.set_yticks([])
TicksOff(ax) == [ax EXCEPT !.xticks = 0, !.yticks = 0]

\* plt.subplots(r, c): a new figure with r * c blank axes, made current.
Subplots(fs, r, c) ==
    Append(fs, [axes |-> [k \in 1 .. r * c |-> NewAxes(r, c, k - 1)], cur |-> r * c])

\* Bbox.fully_overlaps for two grid cells of one figure: their interiors meet.
Overlaps(a, b) ==
    LET ra == a.cell \div a.grid[2]   ca == a.cell % a.grid[2]
        rb == b.cell \div b.grid[2]   cb == b.cell % b.grid[2]
    IN  /\ ca * b.grid[2] < (cb + 1) * a.grid[2]
        /\ cb * a.grid[2] < (ca + 1) * b.grid[2]
        /\ ra * b.grid[1] < (rb + 1) * a.grid[1]
        /\ rb * a.grid[1] < (ra + 1) * b.grid[1]

\* plt.gcf(): the current figure, created when there is none.
Gcf(fs) == IF fs = <<>> THEN <<[axes |-> <<>>, cur |-> 0]>> ELSE fs

\* plt.subplot(spec): a new axes in the current figure at the grid cell, made
\* current; an older matplotlib first deletes the axes it overlaps.
Subplot(fs, r, c, cell) ==
    LET base == Gcf(fs)
        f    == base[Len(base)]
        new  == NewAxes(r, c, cell)
        kept == IF mplDeletesOverlap
                THEN SelectSeq(f.axes, LAMBDA a : ~Overlaps(a, new))
                ELSE f.axes
    IN  [base EXCEPT ![Len(base)] = [axes |-> Append(kept, new), cur |-> Len(kept) + 1]]

\* plt.gca(): the current axes of the current figure, created (1 x 1) when the
\* figure has none.
Gca(fs) ==
    LET base == Gcf(fs)
        f    == base[Len(base)]
    IN  IF f.cur = 0
        THEN [base EXCEPT ![Len(base)] = [axes |-> <<NewAxes(1, 1, 0)>>, cur |-> 1]]
        ELSE base

\* fs with the axes at position k of the current figure replaced by op's result
SetAxes(fs, k, ax) == [fs EXCEPT ![Len(fs)].axes[k] = ax]
CurAxes(fs) == fs[Len(fs)].axes[fs[Len(fs)].cur]
SetCur(fs, ax) == SetAxes(fs, fs[Len(fs)].cur, ax)

\* ------------------------------------------------------------ call records
Call(fn, n, off, width, name, classes) ==
    [fn |-> fn, no |-> calls + 1, n |-> n, off |-> off, width |-> width,
     name |-> name, classes |-> classes, status |-> "running"]

CanCall == pc = "idle" /\ calls < MaxCalls

Raise(err) ==
    /\ pc' = "idle"
    /\ call' = [call EXCEPT !.status = err]

Offs == 0 .. MaxOff
ImgPixels == ImgSide * ImgSide

\* ---------------------------------------------------------- plot_conv_weights
plot_conv_weights_call ==
    /\ CanCall
    /\ \E n \in 1 .. MaxFilters, off \in Offs :
        LET num_grids == CeilSqrt(n)
        IN  /\ call' = [Call("plot_conv_weights", n, off, 0, "", 0) EXCEPT
                            !.status = IF num_grids = 1 THEN "AttributeError"
                                       ELSE "running"]
            /\ figs' = Subplots(figs, num_grids, num_grids)
            \* plt.subplots(1, 1) returns one Axes, which has no .flat
            /\ pc' = IF num_grids = 1 THEN "idle" ELSE "conv_loop"
    /\ i' = 0
    /\ calls' = calls + 1
    /\ UNCHANGED <<shown, files, mplDeletesOverlap, findVars>>

ConvPanelOwnScale(ax, c, k) ==
    Imshow(ax, Image(c.no, k, "given", PanelMin(c.off, k), PanelMax(c.off, k)))

ConvPanel(ax, c, k) ==
    Imshow(ax, Image(c.no, k, "given", NpMin(c.n, c.off), NpMax(c.n, c.off)))

LoopGuard(k, n) == k < n

plot_conv_weights_loop ==
    /\ pc = "conv_loop"
    /\ LET cells == CeilSqrt(call.n) * CeilSqrt(call.n)
           ax    == figs[Len(figs)].axes[i + 1]
           drawn == IF LoopGuard(i, call.n) THEN ConvPanel(ax, call, i) ELSE ax
       IN  /\ figs' = SetAxes(figs, i + 1, TicksOff(drawn))
           /\ pc' = IF i + 1 = cells THEN "show" ELSE "conv_loop"
    /\ i' = i + 1
    /\ UNCHANGED <<shown, files, call, calls, mplDeletesOverlap, findVars>>

\* ------------------------------------------------------------ plot_conv_layer
plot_conv_layer_call ==
    /\ CanCall
    /\ \E n \in 1 .. MaxFilters, off \in Offs :
        LET num_grids == CeilSqrt(n)
        IN  /\ call' = [Call("plot_conv_layer", n, off, 0, "", 0) EXCEPT
                            !.status = IF num_grids = 1 THEN "AttributeError"
                                       ELSE "running"]
            /\ figs' = Subplots(figs, num_grids, num_grids)
            /\ pc' = IF num_grids = 1 THEN "idle" ELSE "layer_loop"
    /\ i' = 0
    /\ calls' = calls + 1
    /\ UNCHANGED <<shown, files, mplDeletesOverlap, findVars>>

LayerPanel(ax, c, k) ==
    Imshow(ax, Image(c.no, k, "auto", PanelMin(c.off, k), PanelMax(c.off, k)))

plot_conv_layer_loop ==
    /\ pc = "layer_loop"
    /\ LET cells == CeilSqrt(call.n) * CeilSqrt(call.n)
           ax    == figs[Len(figs)].axes[i + 1]
           drawn == IF LoopGuard(i, call.n) THEN LayerPanel(ax, call, i) ELSE ax
       IN  /\ figs' = SetAxes(figs, i + 1, TicksOff(drawn))
           /\ pc' = IF i + 1 = cells THEN "show" ELSE "layer_loop"
    /\ i' = i + 1
    /\ UNCHANGED <<shown, files, call, calls, mplDeletesOverlap, findVars>>

\* ------------------------------------------------------------------ plt.show
\* plt.show() puts every open figure on screen and blocks.
plt_show ==
    /\ pc = "show"
    /\ shown' = figs
    /\ pc' = "showing"
    /\ UNCHANGED <<figs, files, call, i, calls, mplDeletesOverlap, findVars>>

\* The windows are closed: each figure is destroyed and plt.show() returns.
CloseAll(fs) == <<>>

plt_show_returns ==
    /\ pc = "showing"
    /\ figs' = CloseAll(figs)
    /\ shown' = <<>>
    /\ pc' = "idle"
    /\ call' = [call EXCEPT !.status = "returned"]
    /\ UNCHANGED <<files, i, calls, mplDeletesOverlap, findVars>>

\* ----------------------------------------------------------------- plot_weights
DenseUnitChoices == {DenseShown - 1, DenseShown, DenseShown + 1}

plot_weights_call ==
    /\ CanCall
    /\ \E units \in DenseUnitChoices, off \in Offs :
        call' = Call("plot_weights", units, off, 0, "", 0)
    /\ figs' = Subplots(figs, DenseRows, DenseCols)
    /\ pc' = "dense_loop"
    /\ i' = 0
    /\ calls' = calls + 1
    /\ UNCHANGED <<shown, files, mplDeletesOverlap, findVars>>

DensePanelUncaptioned(ax, c, k) ==
    Imshow(ax, Image(c.no, k, "given", NpMin(c.n, c.off), NpMax(c.n, c.off)))

DensePanel(ax, c, k) ==
    Imshow([ax EXCEPT !.xlabel = "Weights: " \o ToString(k)],
           Image(c.no, k, "given", NpMin(c.n, c.off), NpMax(c.n, c.off)))

plot_weights_loop ==
    /\ pc = "dense_loop"
    /\ LET ax == figs[Len(figs)].axes[i + 1]
       IN  IF LoopGuard(i, DenseShown) /\ i >= call.n
           THEN \* weights[:, i] is out of bounds
                /\ Raise("IndexError")
                /\ UNCHANGED <<figs, i>>
           ELSE /\ figs' = SetAxes(figs, i + 1,
                       TicksOff(IF LoopGuard(i, DenseShown)
                                THEN DensePanel(ax, call, i) ELSE ax))
                /\ pc' = IF i + 1 = DenseRows * DenseCols THEN "show" ELSE "dense_loop"
                /\ i' = i + 1
                /\ UNCHANGED call
    /\ UNCHANGED <<shown, files, calls, mplDeletesOverlap, findVars>>

\* -------------------------------------------------------- save_image_collection
Names == {"out"}
Widths == {ImgPixels, ImgPixels - 1}

save_image_collection_call ==
    /\ CanCall
    /\ \E n \in 0 .. MaxImages, width \in Widths, name \in Names :
        \* n = 0: dimensions * 1.0 / n_image_rows divides by zero
        /\ call' = [Call("save_image_collection", n, 0, width, name, 0) EXCEPT
                        !.status = IF n = 0 THEN "ZeroDivisionError" ELSE "running"]
        /\ pc' = IF n = 0 THEN "idle" ELSE "save_loop"
    /\ i' = 0
    /\ calls' = calls + 1
    /\ UNCHANGED <<figs, shown, files, mplDeletesOverlap, findVars>>

n_image_rows(c) == CeilSqrt(c.n)
n_image_cols(c) == CeilDiv(c.n, n_image_rows(c))

SavedPanel(ax, c, k) ==
    Imshow(ax, Image(c.no, k, "auto", PanelMin(c.off, k), PanelMax(c.off, k)))

save_image_collection_loop ==
    /\ pc = "save_loop"
    /\ LET withAx == Subplot(figs, n_image_rows(call), n_image_cols(call), i)
       IN  IF call.width # ImgPixels
           THEN \* reshape((28, 28)) of a row that has not 784 entries
                /\ figs' = withAx
                /\ Raise("ValueError")
                /\ UNCHANGED i
           ELSE /\ figs' = SetCur(withAx, TicksOff(SavedPanel(CurAxes(withAx), call, i)))
                /\ pc' = IF i + 1 = call.n THEN "savefig" ELSE "save_loop"
                /\ i' = i + 1
                /\ UNCHANGED call
    /\ UNCHANGED <<shown, files, calls, mplDeletesOverlap, findVars>>

\* plt.savefig(filename + '_vis.png'): the current figure, as it is, to the file
SavedFileBareName(c, fig) == [no |-> c.no, path |-> c.name, fig |-> fig]

SavedFile(c, fig) == [no |-> c.no, path |-> c.name \o "_vis.png", fig |-> fig]

save_image_collection_savefig ==
    /\ pc = "savefig"
    /\ figs' = Gcf(figs)
    /\ files' = Append(files, SavedFile(call, Gcf(figs)[Len(Gcf(figs))]))
    /\ pc' = "idle"
    /\ call' = [call EXCEPT !.status = "returned"]
    /\ UNCHANGED <<shown, i, calls, mplDeletesOverlap, findVars>>

\* ------------------------------------------------------ plot_autoencoder_weights
AeCells == AeRows * AeCols
AeUnitChoices == {2, AeCells - 1, AeCells, AeCells + 1}

plot_autoencoder_weights_call ==
    /\ CanCall
    /\ \E units \in AeUnitChoices :
        \* weights has shape (784, units); width is its first dimension
        call' = Call("plot_autoencoder_weights", units, 0, ImgPixels, "", 0)
    /\ pc' = "ae_loop"
    /\ i' = 0
    /\ calls' = calls + 1
    /\ UNCHANGED <<figs, shown, files, mplDeletesOverlap, findVars>>

\* weights = weights.T; dimensions = weights.shape[1]
AeDimensions(c) == c.width

\* zip(grid, range(dimensions)) ends with the shorter of the two
AeZipLen(c) == IF AeDimensions(c) < AeCells THEN AeDimensions(c) ELSE AeCells

AePanel(ax, c, k) ==
    Imshow(ax, Image(c.no, k, "auto", PanelMin(c.off, k), PanelMax(c.off, k)))

plot_autoencoder_weights_loop ==
    /\ pc = "ae_loop"
    /\ LET withAx == Subplot(figs, AeRows, AeCols, i)
       IN  IF i >= call.n
           THEN \* weights[count, :] is out of bounds
                /\ figs' = withAx
                /\ Raise("IndexError")
                /\ UNCHANGED i
           ELSE /\ figs' = SetCur(withAx, TicksOff(AePanel(CurAxes(withAx), call, i)))
                /\ pc' = IF i + 1 = AeZipLen(call) THEN "show" ELSE "ae_loop"
                /\ i' = i + 1
                /\ UNCHANGED call
    /\ UNCHANGED <<shown, files, calls, mplDeletesOverlap, findVars>>

\* -------------------------------------------------------- print_confusion_matrix
\* call.n labels and call.width predictions; sklearn's confusion_matrix raises
\* ValueError when the two counts differ.
print_confusion_matrix_call ==
    /\ CanCall
    /\ \E m \in {MaxLen - 1, MaxLen}, num_classes \in 1 .. NumClasses :
        LET c == Call("print_confusion_matrix", MaxLen, 0, m, "", num_classes)
        IN  IF m # MaxLen
            THEN /\ call' = [c EXCEPT !.status = "ValueError"]
                 /\ pc' = "idle"
                 /\ UNCHANGED figs
            ELSE \* plt.imshow(conf_mat, ...); plt.tight_layout()
                 /\ call' = c
                 /\ pc' = "cm_colorbar"
                 /\ figs' = SetCur(Gca(figs),
                                   Imshow(CurAxes(Gca(figs)), Image(c.no, 0, "auto", 0, 0)))
    /\ i' = 0
    /\ calls' = calls + 1
    /\ UNCHANGED <<shown, files, mplDeletesOverlap, findVars>>

\* plt.colorbar(): a colorbar axes beside the current axes, which stays current
print_confusion_matrix_colorbar ==
    /\ pc = "cm_colorbar"
    /\ LET f  == figs[Len(figs)]
           cb == [NewAxes(CurAxes(figs).grid[1], CurAxes(figs).grid[2], CurAxes(figs).cell)
                      EXCEPT !.kind = "colorbar"]
       IN  figs' = [figs EXCEPT ![Len(figs)].axes = Append(@, cb)]
    /\ pc' = "cm_ticks"
    /\ UNCHANGED <<shown, files, call, i, calls, mplDeletesOverlap, findVars>>

\* plt.xticks(tick_marks, range(num_classes)); plt.yticks(...)
print_confusion_matrix_ticks ==
    /\ pc = "cm_ticks"
    /\ figs' = SetCur(figs, [CurAxes(figs) EXCEPT !.xticks = call.classes,
                                                  !.yticks = call.classes])
    /\ pc' = "cm_xlabel_predicted"
    /\ UNCHANGED <<shown, files, call, i, calls, mplDeletesOverlap, findVars>>

XLabelKeepFirst(ax, text) == IF ax.xlabel = "" THEN [ax EXCEPT !.xlabel = text] ELSE ax

XLabel(ax, text) == [ax EXCEPT !.xlabel = text]

\* plt.xlabel('Predicted')
print_confusion_matrix_xlabel_predicted ==
    /\ pc = "cm_xlabel_predicted"
    /\ figs' = SetCur(figs, XLabel(CurAxes(figs), "Predicted"))
    /\ pc' = "cm_xlabel_true"
    /\ UNCHANGED <<shown, files, call, i, calls, mplDeletesOverlap, findVars>>

\* plt.xlabel('True')
print_confusion_matrix_xlabel_true ==
    /\ pc = "cm_xlabel_true"
    /\ figs' = SetCur(figs, XLabel(CurAxes(figs), "True"))
    /\ pc' = "show"
    /\ UNCHANGED <<shown, files, call, i, calls, mplDeletesOverlap, findVars>>

\* ------------------------------------------------------------- specifications
NoCall ==
    [fn |-> "none", no |-> 0, n |-> 0, off |-> 0, width |-> 0,
     name |-> "", classes |-> 0, status |-> "none"]

\* The plot renderers, called in any order in a fresh interpreter.
Init ==
    /\ labels = <<>> /\ predictions = <<>> /\ images = <<>>
    /\ result = NoResult
    /\ numpyRaises = TRUE
    /\ figs = <<>> /\ shown = <<>> /\ files = <<>>
    /\ pc = "idle" /\ call = NoCall /\ i = 0 /\ calls = 0
    /\ mplDeletesOverlap \in BOOLEAN

Next ==
    \/ plot_weights_call
    \/ plot_weights_loop
    \/ plot_conv_weights_call
    \/ plot_conv_weights_loop
    \/ plot_conv_layer_call
    \/ plot_conv_layer_loop
    \/ save_image_collection_call
    \/ save_image_collection_loop
    \/ save_image_collection_savefig
    \/ plot_autoencoder_weights_call
    \/ plot_autoencoder_weights_loop
    \/ print_confusion_matrix_call
    \/ print_confusion_matrix_colorbar
    \/ print_confusion_matrix_ticks
    \/ print_confusion_matrix_xlabel_predicted
    \/ print_confusion_matrix_xlabel_true
    \/ plt_show
    \/ plt_show_returns

Spec == Init /\ [][Next]_vars

\* The mismatch finders, applied to every pair (triple) of short vectors.
InitFind ==
    /\ labels \in SeqsUpTo(Classes, MaxLen)
    /\ predictions \in SeqsUpTo(Classes, MaxLen)
    /\ images \in {ImageBatch(m) : m \in 0 .. MaxLen}
    /\ numpyRaises \in BOOLEAN
    /\ result = NoResult
    /\ figs = <<>> /\ shown = <<>> /\ files = <<>>
    /\ pc = "idle" /\ call = NoCall /\ i = 0 /\ calls = 0
    /\ mplDeletesOverlap = FALSE

CallFindCifar ==
    /\ result' = find_wrong_predictions_cifar(labels, predictions)
    /\ UNCHANGED <<labels, predictions, images, numpyRaises>>
    /\ UNCHANGED plotVars

CallFind ==
    /\ result' = find_wrong_predictions(labels, predictions, images)
    /\ UNCHANGED <<labels, predictions, images, numpyRaises>>
    /\ UNCHANGED plotVars

NextFind == CallFindCifar \/ CallFind

SpecFind == InitFind /\ [][NextFind]_vars

\* ====================================================================== claims
Called == result.fn # "none"
WithImages == result.fn = "find_wrong_predictions"
Aligned ==
    /\ Len(labels) = Len(predictions)
    /\ WithImages => Len(images) = Len(labels)

\* C1: for equal-length label and prediction vectors (and an image batch of
\* the same length) both finders return, as index set, exactly the positions
\* where label and prediction differ, each once and ascending; wrong_labels
\* are the predictions and correct_labels the labels at those positions, and
\* wrong_images the images at those positions.
C1_MismatchPositions ==
    (Called /\ Aligned) =>
        LET idx == result.wrong_indeces
        IN  /\ result.status = "returned"
            /\ \A k \in 1 .. Len(idx) :
                  /\ idx[k] \in 0 .. Len(labels) - 1
                  /\ labels[idx[k] + 1] # predictions[idx[k] + 1]
            /\ \A k \in 1 .. Len(idx) - 1 : idx[k] < idx[k + 1]
            /\ \A p \in 0 .. Len(labels) - 1 :
                  labels[p + 1] # predictions[p + 1] => \E k \in 1 .. Len(idx) : idx[k] = p
            /\ Len(result.wrong_labels) = Len(idx)
            /\ Len(result.correct_labels) = Len(idx)
            /\ \A k \in 1 .. Len(idx) :
                  /\ result.wrong_labels[k] = predictions[idx[k] + 1]
                  /\ result.correct_labels[k] = labels[idx[k] + 1]
            /\ WithImages =>
                  /\ Len(result.wrong_images) = Len(idx)
                  /\ \A k \in 1 .. Len(idx) : result.wrong_images[k] = images[idx[k] + 1]

C1_Witness ==
    /\ WithImages /\ Aligned
    /\ Len(labels) = 3
    /\ result.wrong_indeces = <<0, 2>>
    /\ result.wrong_images = <<0, 2>>

\* C2: when the label vector equals the prediction vector (any length, 0
\* included) both finders return normally and every returned collection is
\* empty.
C2_IdenticalVectorsGiveEmpty ==
    (Called /\ labels = predictions) =>
        /\ result.status = "returned"
        /\ result.wrong_indeces = <<>>
        /\ result.wrong_labels = <<>>
        /\ result.correct_labels = <<>>
        /\ result.wrong_images = <<>>

C2_Witness ==
    /\ WithImages
    /\ labels = predictions
    /\ Len(labels) = 2
    /\ Len(images) = 2
    /\ result.status = "returned"

\* C3 as stated: a call with label and prediction vectors of different
\* lengths, or an image batch of another length, never returns a result.
C3_MisalignedAlwaysRaises ==
    (Called /\ ~Aligned) => result.status # "returned"

\* The value position p of a vector takes part in the comparison with, a
\* length-1 vector being stretched.
Stretched(a, p) == IF Len(a) = 1 THEN a[1] ELSE a[p + 1]
Broadcastable == Len(labels) = Len(predictions) \/ Len(labels) = 1 \/ Len(predictions) = 1
ComparedLen == IF Len(labels) = 1 THEN Len(predictions) ELSE Len(labels)
WrongPositions ==
    IF Broadcastable
    THEN {p \in 0 .. ComparedLen - 1 : Stretched(labels, p) # Stretched(predictions, p)}
    ELSE {0}
BeyondEnd(a) == \E p \in WrongPositions : p >= Len(a)

\* C3 as amended: no validation is performed. A misaligned call raises only
\* when the comparison itself raises (shapes that do not broadcast, on a numpy
\* that raises for them) or when a mismatch position lies beyond the end of an
\* array it indexes (images, then predictions, then labels, the first of them
\* raising); in every other case it returns a tuple built on the stretched
\* comparison.
C3_MisalignedRaisesOnlyOutOfRange ==
    (Called /\ ~Aligned) =>
        LET cmpRaises == ~Broadcastable /\ numpyRaises
            expected ==
                IF cmpRaises THEN "compare"
                ELSE IF WithImages /\ BeyondEnd(images) THEN "images"
                ELSE IF BeyondEnd(predictions) THEN "predictions"
                ELSE IF BeyondEnd(labels) THEN "labels"
                ELSE "none"
        IN  /\ result.raisedBy = expected
            /\ (result.status = "returned") = (expected = "none")
            /\ expected = "none" =>
                  /\ {result.wrong_indeces[k] : k \in 1 .. Len(result.wrong_indeces)}
                        = WrongPositions
                  /\ Len(result.wrong_indeces) = Cardinality(WrongPositions)

C3_Witness ==
    /\ WithImages
    /\ Len(labels) = 1 /\ Len(predictions) = 3 /\ Len(images) = 2
    /\ result.status = "returned"
    /\ result.wrong_indeces = <<0>>

\* ------------------------------------------------------- the plot renderers
Failed == call.status \in {"AttributeError", "IndexError", "ValueError", "ZeroDivisionError"}
LastOf(fs) == fs[Len(fs)]
\* the axes of a figure that carry an image drawn by call number no
PanelsOf(fig, no) ==
    {k \in 1 .. Len(fig.axes) : \E j \in 1 .. Len(fig.axes[k].images) :
                                    fig.axes[k].images[j].no = no}
\* the axes holds exactly one image, image idx of call number no
HoldsOnly(ax, no, idx) ==
    /\ Len(ax.images) = 1
    /\ ax.images[1].no = no
    /\ ax.images[1].idx = idx
IsCeilSqrt(r, n) == r * r >= n /\ (r = 0 \/ (r - 1) * (r - 1) < n)

\* C4: for every filter/image count n >= 1, plot_conv_weights, plot_conv_layer
\* and save_image_collection lay out a grid of ceil(sqrt(n)) rows with
\* rows * cols >= n in which exactly the first n cells, in row-major order,
\* receive an image and the cells from n on receive none.
C4_GridCoversEveryCount ==
    /\ (call.fn \in {"plot_conv_weights", "plot_conv_layer"} /\ call.n >= 1) =>
          /\ ~Failed
          /\ pc = "showing" =>
                LET fig == LastOf(shown)
                    r   == fig.axes[1].grid[1]
                IN  /\ IsCeilSqrt(r, call.n)
                    /\ Len(fig.axes) = r * r
                    /\ \A k \in 1 .. Len(fig.axes) :
                          /\ fig.axes[k].grid = <<r, r>>
                          /\ fig.axes[k].cell = k - 1
                          /\ IF k - 1 < call.n
                             THEN HoldsOnly(fig.axes[k], call.no, k - 1)
                             ELSE fig.axes[k].images = <<>>
    /\ (call.fn = "save_image_collection" /\ call.n >= 1 /\ call.width = ImgPixels) =>
          /\ ~Failed
          /\ pc = "idle" =>
                LET fig == LastOf(files).fig
                    own == PanelsOf(fig, call.no)
                IN  /\ Cardinality(own) = call.n
                    /\ \A k \in own :
                          /\ IsCeilSqrt(fig.axes[k].grid[1], call.n)
                          /\ fig.axes[k].grid[1] * fig.axes[k].grid[2] >= call.n
                          /\ fig.axes[k].cell < call.n
                          /\ HoldsOnly(fig.axes[k], call.no, fig.axes[k].cell)

\* C5 as stated: plot_weights, for a weight matrix with any number of output
\* units, shows a 3 x 4 grid whose cells 0..9 hold columns 0..9 of the matrix,
\* captioned "Weights: 0" .. "Weights: 9", whose last 2 cells are blank, and
\* whose 12 cells all have their ticks removed.
DenseLayoutShown ==
    LET fig == LastOf(shown)
    IN  /\ Len(fig.axes) = 12
        /\ Cardinality(PanelsOf(fig, call.no)) = 10
        /\ \A k \in 1 .. Len(fig.axes) :
              /\ fig.axes[k].grid = <<3, 4>>
              /\ fig.axes[k].cell = k - 1
              /\ fig.axes[k].xticks = 0 /\ fig.axes[k].yticks = 0
              /\ IF k - 1 <= 9
                 THEN /\ HoldsOnly(fig.axes[k], call.no, k - 1)
                      /\ fig.axes[k].xlabel = "Weights: " \o ToString(k - 1)
                 ELSE /\ fig.axes[k].images = <<>>
                      /\ fig.axes[k].xlabel = ""

C5_DenseGridForAnyUnitCount ==
    call.fn = "plot_weights" =>
        /\ ~Failed
        /\ pc = "showing" => DenseLayoutShown

\* C5 as amended: for a weight matrix with at least 10 output units
\* plot_weights shows that grid (10 captioned panels, 2 blank cells, no ticks
\* anywhere), whatever the unit count beyond 10; with fewer than 10 units it
\* raises IndexError at the first cell that has no column and shows nothing.
C5_DenseGridFromTenUnits ==
    call.fn = "plot_weights" =>
        IF call.n >= 10
        THEN /\ ~Failed
             /\ pc = "showing" => DenseLayoutShown
        ELSE /\ pc \notin {"show", "showing"}
             /\ call.status # "returned"
             /\ pc = "idle" => (call.status = "IndexError" /\ i = call.n)

C5_Witness ==
    /\ call.fn = "plot_weights"
    /\ call.n = 11
    /\ pc = "showing"
    /\ LastOf(shown).axes[10].xlabel = "Weights: 9"

\* A common refinement of the grids of a figure's axes: every grid's row count
\* divides FineRows and every column count divides FineCols.
RECURSIVE Product(_)
Product(S) == IF S = {} THEN 1 ELSE LET x == CHOOSE y \in S : TRUE IN x * Product(S \ {x})
FineRows(fig) == Product({fig.axes[k].grid[1] : k \in 1 .. Len(fig.axes)})
FineCols(fig) == Product({fig.axes[k].grid[2] : k \in 1 .. Len(fig.axes)})
InCell(fig, k, u, v) ==
    LET ax == fig.axes[k]
    IN  /\ u \div (FineRows(fig) \div ax.grid[1]) = ax.cell \div ax.grid[2]
        /\ v \div (FineCols(fig) \div ax.grid[2]) = ax.cell % ax.grid[2]
\* Axes are drawn in the order they were added: axes k shows in the rendering
\* when some part of its cell lies under no later axes.
Visible(fig, k) ==
    \E u \in 0 .. FineRows(fig) - 1, v \in 0 .. FineCols(fig) - 1 :
        /\ InCell(fig, k, u, v)
        /\ \A m \in k + 1 .. Len(fig.axes) : ~InCell(fig, m, u, v)

\* C6: no state is shared between calls: each call draws into a figure of its
\* own, so the panels that show in the file a save_image_collection call
\* writes are those of that call alone, whatever was called before it.
C6_SavedFileShowsOnlyOwnPanels ==
    \A f \in 1 .. Len(files) :
        \A k \in 1 .. Len(files[f].fig.axes) :
            (\E j \in 1 .. Len(files[f].fig.axes[k].images) :
                files[f].fig.axes[k].images[j].no # files[f].no)
            => ~Visible(files[f].fig, k)

\* C7 as stated: plot_weights, plot_conv_weights, plot_conv_layer and
\* plot_autoencoder_weights render every filled panel of a call with one
\* colour scale, the global minimum and maximum of the input tensor.
OwnImages(fs) ==
    UNION {UNION {{fs[f].axes[k].images[j] :
                      j \in {m \in 1 .. Len(fs[f].axes[k].images) :
                                fs[f].axes[k].images[m].no = call.no}} :
                  k \in 1 .. Len(fs[f].axes)} :
           f \in 1 .. Len(fs)}
SharedScale(img) ==
    /\ img.vmin = NpMin(call.n, call.off)
    /\ img.vmax = NpMax(call.n, call.off)
OwnScale(img) ==
    /\ img.norm = "auto"
    /\ img.vmin = PanelMin(call.off, img.idx)
    /\ img.vmax = PanelMax(call.off, img.idx)

C7_EveryVisualizerSharesScale ==
    call.fn \in {"plot_weights", "plot_conv_weights", "plot_conv_layer",
                 "plot_autoencoder_weights"} =>
        \A img \in OwnImages(figs) : SharedScale(img)

\* C7 as amended: plot_weights and plot_conv_weights render every filled panel
\* with the scale given by the tensor's global minimum and maximum;
\* plot_conv_layer and plot_autoencoder_weights pass no scale, so each of their
\* panels is normalised to its own data range.
C7_OnlyWeightPlotsShareScale ==
    /\ call.fn \in {"plot_weights", "plot_conv_weights"} =>
          \A img \in OwnImages(figs) : img.norm = "given" /\ SharedScale(img)
    /\ call.fn \in {"plot_conv_layer", "plot_autoencoder_weights"} =>
          \A img \in OwnImages(figs) : OwnScale(img)

C7_Witness ==
    /\ call.fn = "plot_conv_weights"
    /\ pc = "showing"
    /\ call.n = 3
    /\ \E img \in OwnImages(shown) :
          /\ SharedScale(img)
          /\ PanelMin(call.off, img.idx) # img.vmin
    /\ \E img \in OwnImages(shown) : PanelMax(call.off, img.idx) # img.vmax

\* C8: plot_autoencoder_weights, for a (784, U) weight matrix with any U >= 1,
\* renders every unit exactly once in its 10 x 10 grid: U panels are drawn
\* and panel k shows unit k.
C8_EveryUnitDrawnOnce ==
    (call.fn = "plot_autoencoder_weights" /\ call.n >= 1) =>
        /\ ~Failed
        /\ pc = "showing" =>
              LET fig == LastOf(shown)
                  own == PanelsOf(fig, call.no)
              IN  /\ Cardinality(own) = call.n
                  /\ \A k \in own :
                        /\ fig.axes[k].grid = <<10, 10>>
                        /\ HoldsOnly(fig.axes[k], call.no, fig.axes[k].cell)

\* C9: save_image_collection(images, filename) with N >= 1 images of 784
\* values renders image k, ticks removed, into grid cell k for k = 0..N-1, each
\* once, and only after all N are rendered writes one file, filename +
\* "_vis.png"; when rendering raises, the error propagates and no file is
\* written.
OwnFiles == {f \in 1 .. Len(files) : files[f].no = call.no}
RenderedUpTo(fig, m) ==
    LET own == PanelsOf(fig, call.no)
    IN  /\ Cardinality(own) = m
        /\ \A c \in 0 .. m - 1 : \E k \in own : fig.axes[k].cell = c
        /\ \A k \in own :
              /\ fig.axes[k].grid = <<n_image_rows(call), n_image_cols(call)>>
              /\ fig.axes[k].cell < m
              /\ HoldsOnly(fig.axes[k], call.no, fig.axes[k].cell)
              /\ fig.axes[k].xticks = 0 /\ fig.axes[k].yticks = 0

C9_RenderAllThenWriteOnce ==
    (call.fn = "save_image_collection" /\ call.n >= 1) =>
        /\ pc \in {"save_loop", "savefig"} =>
              /\ OwnFiles = {}
              /\ i > 0 => RenderedUpTo(LastOf(figs), i)
              /\ pc = "savefig" => i = call.n
        /\ (pc = "idle" /\ call.width = ImgPixels) =>
              /\ call.status = "returned"
              /\ Cardinality(OwnFiles) = 1
              /\ \A f \in OwnFiles :
                    /\ files[f].path = call.name \o "_vis.png"
                    /\ RenderedUpTo(files[f].fig, call.n)
        /\ (pc = "idle" /\ call.width # ImgPixels) =>
              /\ call.status = "ValueError"
              /\ OwnFiles = {}

C9_Witness ==
    /\ call.fn = "save_image_collection"
    /\ call.n = 3
    /\ call.status = "returned"
    /\ call.no = 2
    /\ Len(files) = 2
    /\ files[2].path = "out_vis.png"

\* C10: print_confusion_matrix sets the horizontal-axis label twice, first to
\* "Predicted", then to "True", and never the vertical one: when the figure is
\* shown the horizontal axis reads "True" and the vertical axis is unlabeled.
C10_LabelSetTwice ==
    call.fn = "print_confusion_matrix" =>
        /\ pc = "cm_xlabel_true" => CurAxes(figs).xlabel = "Predicted"
        /\ pc \in {"show", "showing"} =>
              LET fig == LastOf(figs)
              IN  /\ PanelsOf(fig, call.no) = {fig.cur}
                  /\ fig.axes[fig.cur].xlabel = "True"
                  /\ \A k \in 1 .. Len(fig.axes) : fig.axes[k].ylabel = ""
        /\ pc = "showing" => shown = figs

C10_Witness ==
    /\ call.fn = "print_confusion_matrix"
    /\ pc = "showing"
    /\ CurAxes(shown).xlabel = "True"
    /\ call.classes = 2

====
